---- MODULE Spec2Model ----
(***************************************************************************)
(* Quality control of spine-radiograph annotations.                        *)
(*                                                                         *)
(*   qc_engine.py    QualityController: rule engine, sequence checker      *)
(*   data_parser.py  DataParser: label maps, normalisation, parsing        *)
(*                                                                         *)
(* Python dictionaries are functions (records) whose DOMAIN is the set of  *)
(* keys present: d['k'] raises KeyError exactly when "k" \notin DOMAIN d.  *)
(* Optional values (None or a value) are sequences of length 0 or 1.       *)
(* Coordinates are integers; the inputs are chosen so that every division  *)
(* the code performs on them is exact.                                     *)
(***************************************************************************)
EXTENDS Integers, Sequences, FiniteSets, TLC

VARIABLES
    \* --- QualityController.run_qc ---
    rules,             \* self.rules: the configured rule list
    annotations,       \* the feature list handed to run_qc / _check_sequence
    current_view,      \* run_qc argument
    view_annotations,  \* run_qc local: features of the requested view
    enabled_rules,     \* run_qc local: rules enabled for the requested view
    results,           \* run_qc local: the list being returned
    ri,                \* position of the for-loop over enabled_rules
    pc,                \* position inside run_qc and the rule being evaluated
    exc,               \* exception that left run_qc ("" while none)
    rule_status,       \* local rule_status of the rule being evaluated
    messages,          \* local messages of the rule being evaluated
    feature_labels,    \* local feature_labels of the point rule being evaluated
    si,                \* position of the loop inside the rule being evaluated
    \* --- QualityController._check_sequence called on its own ---
    seq_labels,        \* expected_labels argument
    seq_out,           \* <<>> before the call, <<result>> after it
    \* --- DataParser ---
    label_mapping,     \* self.label_mapping: view -> view configuration
    map_out,           \* <<>> before a call of the resolver, <<call and outcome>> after it
    mirror_x,          \* self.mirror_x
    _reverse_map,      \* self._reverse_map: actual label -> standard label
    fs,                \* the file system: path -> what is found there
    parse_out,         \* <<>> before parse_data is called, <<last call and outcome>> after
    \* --- run_qc.py: find_cases_and_process ---
    run_context,       \* annotator_tool, data_view and the tool's file_type
    ci,                \* position of the traversal among the matching cases
    case_pc,           \* position inside find_cases_and_process
    ALL_CASE_RESULTS,  \* the global list of case entries
    case_log           \* what happened to each case visited so far

qcVars  == <<rules, annotations, current_view, view_annotations, enabled_rules,
             results, ri, pc, exc, rule_status, messages, feature_labels, si>>
seqVars == <<seq_labels, seq_out>>
mapVars == <<label_mapping, map_out>>
parseVars == <<mirror_x, _reverse_map, fs, parse_out>>
caseVars == <<run_context, ci, case_pc, ALL_CASE_RESULTS, case_log>>
nonQcVars == <<seqVars, mapVars, parseVars, caseVars>>
vars    == <<qcVars, nonQcVars>>

----------------------------------------------------------------------------
(* Generic helpers for Python idioms *)

\* dict.get(k, d)
Get(d, k, dflt) == IF k \in DOMAIN d THEN d[k] ELSE dflt

\* elements of a list as a set
Range(s) == {s[i] : i \in 1..Len(s)}

Min2(a, b) == IF a < b THEN a ELSE b

RECURSIVE SumX(_)
SumX(ps) == IF ps = <<>> THEN 0 ELSE Head(ps).x + SumX(Tail(ps))

RECURSIVE SumY(_)
SumY(ps) == IF ps = <<>> THEN 0 ELSE Head(ps).y + SumY(Tail(ps))

----------------------------------------------------------------------------
(* data_parser.py: Point, AnnotationFeature *)

Point(x, y) == [x |-> x, y |-> y]

\* AnnotationFeature.__init__ (center is derived from points, see HasCenter/Center)
AnnotationFeature(label, type, points, view) ==
    [label |-> label, type |-> type, points |-> points, view |-> view]

\* AnnotationFeature._calculate_center: None when there are no points
HasCenter(f) == Len(f.points) > 0

\* AnnotationFeature._calculate_center: the arithmetic mean of the points
Center(f) == Point(SumX(f.points) \div Len(f.points), SumY(f.points) \div Len(f.points))

----------------------------------------------------------------------------
(* qc_engine.py: configuration held by QualityController *)

POSITION_TOLERANCE == 5

\* config['config']['standard_spinal_sequence'] of the modelled configuration
vertebra_order_list == <<"L2", "L3", "L4", "L5", "L6">>

\* config['vertebra_range_groups'] of the modelled configuration
vertebra_range_groups == [LUMBAR |-> <<"L3", "L4", "L5">>]

\* self.vertebra_order: label -> index (0-based), defined on the listed labels
InOrder(label) == \E i \in 1..Len(vertebra_order_list) : vertebra_order_list[i] = label

vertebra_order(label) ==
    (CHOOSE i \in 1..Len(vertebra_order_list) : vertebra_order_list[i] = label) - 1

\* QCResult.__init__
QCResult(rule_id, status, message, labels) ==
    [rule_id |-> rule_id, status |-> status, message |-> message, feature_labels |-> labels]

----------------------------------------------------------------------------
(* qc_engine.py: QualityController._get_feature_center *)

\* _get_feature_center without the synthetic center
_get_feature_center_NoFallback(anns, label) ==
    LET found == SelectSeq(anns, LAMBDA f : f.label = label /\ HasCenter(f))
    IN  IF found # <<>> THEN <<Center(Head(found))>> ELSE <<>>

\* None (<<>>) or the center: a real feature with a center first, else the
\* synthetic center of a label of the anatomical order list.
_get_feature_center(anns, label) ==
    LET found == SelectSeq(anns, LAMBDA f : f.label = label /\ HasCenter(f))
    IN  IF found # <<>>
        THEN <<Center(Head(found))>>
        ELSE IF InOrder(label)
             THEN <<Point(500, 50 + vertebra_order(label) * (750 \div Len(vertebra_order_list)))>>
             ELSE <<>>

----------------------------------------------------------------------------
(* qc_engine.py: QualityController._check_sequence *)

\* how many error pairs the explanation names (error_pairs[:3])
MaxReportedPairs == 3

\* the (label, center.y) list built by the first loop
ordered_features(anns, expected_labels, target_type) ==
    LET pick(l) ==
            LET m == SelectSeq(anns, LAMBDA a : a.label = l /\ a.type = target_type)
            IN  IF m # <<>> /\ HasCenter(Head(m))
                THEN <<[label |-> l, y |-> Center(Head(m)).y]>>
                ELSE <<>>
        RECURSIVE go(_)
        go(i) == IF i > Len(expected_labels) THEN <<>>
                 ELSE pick(expected_labels[i]) \o go(i + 1)
    IN  go(1)

\* Inverted comparing without the tolerance
Inverted_NoTolerance(of, i) == i > 1 /\ of[i].y < of[i - 1].y

\* Is the i-th element an inversion against its predecessor?  prev_y starts
\* at -infinity, so the first element never is.
Inverted(of, i) == i > 1 /\ of[i].y < of[i - 1].y - POSITION_TOLERANCE

\* error_pairs: every (prev_label, label) whose Y drifts upward
error_pairs(of) ==
    LET RECURSIVE go(_)
        go(i) == IF i > Len(of) THEN <<>>
                 ELSE (IF Inverted(of, i) THEN <<<<of[i - 1].label, of[i].label>>>> ELSE <<>>)
                      \o go(i + 1)
    IN  go(1)

\* the pairs named by the explanation, each with the Y values it prints
ReportedPairs(anns, pairs) ==
    LET shown == SubSeq(pairs, 1, Min2(MaxReportedPairs, Len(pairs)))
    IN  [i \in 1..Len(shown) |->
            [prev   |-> shown[i][1],
             cur    |-> shown[i][2],
             prev_y |-> Head(_get_feature_center(anns, shown[i][1])).y,
             cur_y  |-> Head(_get_feature_center(anns, shown[i][2])).y]]

_check_sequence(anns, expected_labels, target_type) ==
    LET of    == ordered_features(anns, expected_labels, target_type)
        pairs == error_pairs(of)
    IN  IF Len(of) < 2
        THEN [is_correct |-> TRUE, kind |-> "insufficient", error_pairs |-> <<>>, reported |-> <<>>]
        ELSE IF pairs = <<>>
             THEN [is_correct |-> TRUE, kind |-> "ordered", error_pairs |-> <<>>, reported |-> <<>>]
             ELSE [is_correct |-> FALSE, kind |-> "inverted", error_pairs |-> pairs,
                   reported |-> ReportedPairs(anns, pairs)]

----------------------------------------------------------------------------
(* qc_engine.py: QualityController._execute_point_position_check *)

\* ExistenceStatus with the missing required target reported as a warning only
ExistenceStatus_Warning(status, required, present) ==
    IF required /\ ~present /\ status = "Pass" THEN "Warning" ELSE status

\* existence loop, lines 103-104: a required target that is absent forces Fail
ExistenceStatus(status, required, present) ==
    IF required /\ ~present THEN "Fail" ELSE status

\* lines 133-136 and 161-164: tolerance-buffered comparison; an operator
\* other than '<' and '>' leaves passed = True
Passed(operator, value, bound) ==
    IF operator = "<" THEN value < bound + POSITION_TOLERANCE
    ELSE IF operator = ">" THEN value > bound - POSITION_TOLERANCE
    ELSE TRUE

\* MissingReferenceStatus overwriting the status whatever it was
MissingReferenceStatus_Overwrite(status) == "Warning"

\* MissingReferenceStatus treating the missing reference as a violation
MissingReferenceStatus_Fail(status) == "Fail"

\* line 144: a reference without a center raises the status to Warning unless Fail
MissingReferenceStatus(status) ==
    IF status # "Fail" THEN "Warning" ELSE status

\* lines 168-171: a violated position rule raises the status to its level
ViolationStatus(status, current_level) ==
    IF current_level = "Fail" THEN "Fail"
    ELSE IF current_level = "Warning" /\ status = "Pass" THEN "Warning"
    ELSE status

\* position_rule['check'].startswith("RELATIVE")
StartsWithRelative(check) == check \in {"RELATIVE_Y", "RELATIVE_X"}

\* the text of a message contains the word 'Warning' (line 183)
ContainsWarning(msg) == msg.kind = "misplaced" /\ msg.level = "Warning"

\* lines 183-184
PromoteStatus(status, msgs) ==
    IF status = "Pass" /\ \E i \in 1..Len(msgs) : ContainsWarning(msgs[i])
    THEN "Warning" ELSE status

\* one iteration of the existence loop (lines 101-107):
\* the status, the messages added and the labels added
ExistenceStep(target, anns, status) ==
    LET present == \E i \in 1..Len(anns) : anns[i].label = target.label
    IN  [status |-> ExistenceStatus(status, target.required, present),
         msgs   |-> IF target.required /\ ~present
                    THEN <<[kind |-> "missing_required", label |-> target.label]>>
                    ELSE <<>>,
         labels |-> IF ~(target.required /\ ~present) /\ present
                    THEN <<target.label>> ELSE <<>>]

\* one iteration of the position loop (lines 110-176):
\* the status and the messages added
PositionStep(pr, anns, status) ==
    LET tf == SelectSeq(anns, LAMBDA a : a.label = pr.target /\ HasCenter(a))
    IN  IF tf = <<>> THEN [status |-> status, msgs |-> <<>>]
        ELSE
        LET center == Center(Head(tf))
        IN  IF pr.check = "ABSOLUTE_X"
            THEN IF Passed(pr.operator, center.x, pr.threshold)
                 THEN [status |-> status, msgs |-> <<>>]
                 ELSE [status |-> ViolationStatus(status, "Fail"),
                       msgs   |-> <<[kind |-> "misplaced", level |-> "Fail",
                                     label |-> pr.target, dim |-> "X"]>>]
            ELSE IF StartsWithRelative(pr.check)
            THEN LET rc == _get_feature_center(anns, pr.relative_to)
                 IN  IF rc = <<>>
                     THEN [status |-> MissingReferenceStatus(status),
                           msgs   |-> <<[kind |-> "reference_missing",
                                         label |-> pr.relative_to]>>]
                     ELSE
                     LET value == IF pr.check = "RELATIVE_Y" THEN center.y ELSE center.x
                         rel   == IF pr.check = "RELATIVE_Y" THEN Head(rc).y ELSE Head(rc).x
                     IN  IF Passed(pr.operator, value, rel)
                         THEN [status |-> status, msgs |-> <<>>]
                         ELSE [status |-> ViolationStatus(status, "Warning"),
                               msgs   |-> <<[kind |-> "misplaced", level |-> "Warning",
                                             label |-> pr.target,
                                             dim |-> IF pr.check = "RELATIVE_Y"
                                                     THEN "Y" ELSE "X"]>>]
            ELSE [status |-> status, msgs |-> <<>>]   \* passed stays True

----------------------------------------------------------------------------
(* qc_engine.py: QualityController._execute_segmentation_completeness_check *)

\* lines 199-200: the required group, [] when the name is not configured
required_labels_base(params) ==
    IF "required_labels_group" \in DOMAIN params
       /\ params.required_labels_group \in DOMAIN vertebra_range_groups
    THEN vertebra_range_groups[params.required_labels_group]
    ELSE <<>>

required_labels(params) == Range(required_labels_base(params))

optional_labels(params) == Range(Get(params, "optional_labels", <<>>))

all_expected_labels(params) == required_labels(params) \cup optional_labels(params)

\* lines 206-207
present_labels(params, anns) ==
    {anns[i].label : i \in {j \in 1..Len(anns) : anns[j].type = params.label_type}}

\* line 210
missing_required(params, anns) == required_labels(params) \ present_labels(params, anns)

\* line 211
required_min_count(params) ==
    Get(params, "required_min_count", Cardinality(required_labels(params)))

\* the count compared at line 213
PresentRequiredCount(params, anns) ==
    Cardinality(required_labels(params)) - Cardinality(missing_required(params, anns))

\* line 223
extra(params, anns) == present_labels(params, anns) \ all_expected_labels(params)

\* line 234
present_optional(params, anns) == optional_labels(params) \cap present_labels(params, anns)

\* CompletenessStatus failing at the boundary (<= for <)
CompletenessStatus_Inclusive(status, count, min_count, missing) ==
    IF count <= min_count THEN "Fail"
    ELSE IF missing # {} THEN (IF status = "Pass" THEN "Warning" ELSE status)
    ELSE status

\* lines 213-218
CompletenessStatus(status, count, min_count, missing) ==
    IF count < min_count THEN "Fail"
    ELSE IF missing # {} THEN (IF status = "Pass" THEN "Warning" ELSE status)
    ELSE status

\* lines 224-225
ExtraStatus(status, ex) ==
    IF ex # {} THEN (IF status # "Fail" THEN "Warning" ELSE status) ELSE status

\* lines 229-230: does the L5 adjacency warning apply?
L5Applies(status, base, present) ==
    /\ "L5" \in Range(base) /\ "L5" \notin present
    /\ "L4" \in Range(base) /\ "L4" \in present
    /\ status # "Fail"

\* line 231
SpecialStatus(status, base, present) ==
    IF L5Applies(status, base, present) THEN "Warning" ELSE status

\* lines 245-246
\* SequenceStatus raising an inversion to Warning only
SequenceStatus_Warning(status, is_correct) ==
    IF ~is_correct /\ status = "Pass" THEN "Warning" ELSE status

SequenceStatus(status, is_correct) ==
    IF ~is_correct THEN "Fail" ELSE status

\* every enumeration of a set as a list
Enumerations(S) == {s \in [1..Cardinality(S) -> S] : Range(s) = S}

\* lines 239-241: sorted() by anatomical index, labels outside the order list
\* last; sorted() is stable, so labels with equal keys keep the iteration
\* order of the set, which Python does not fix: every such order is possible.
sequence_check_labels(params, anns) ==
    LET pe        == present_labels(params, anns) \cap all_expected_labels(params)
        ordered   == SelectSeq(vertebra_order_list, LAMBDA l : l \in pe)
        unordered == {l \in pe : ~InOrder(l)}
    IN  {ordered \o tail : tail \in Enumerations(unordered)}

----------------------------------------------------------------------------
(* qc_engine.py: QualityController.run_qc, one action per step *)

\* line 263
ViewAnnotations(anns, view) == SelectSeq(anns, LAMBDA a : a.view = view)

\* EnabledRules without the view filter
EnabledRules_AnyView(rs, view) ==
    SelectSeq(rs, LAMBDA r : Get(r, "enabled", FALSE))

\* lines 264-267: r.get('enabled', False) and r.get('view') == current_view
EnabledRules(rs, view) ==
    SelectSeq(rs, LAMBDA r : Get(r, "enabled", FALSE) /\ "view" \in DOMAIN r /\ r.view = view)

ruleLocals == <<rule_status, messages, feature_labels, si>>
qcInputs   == <<rules, annotations, current_view, view_annotations, enabled_rules>>

\* results.append(result) and on to the next rule
AppendResult(r) ==
    /\ results' = Append(results, r)
    /\ ri' = ri + 1
    /\ pc' = "loop"
    /\ exc' = exc

\* an exception leaves run_qc
Propagate(e) ==
    /\ pc' = "raised"
    /\ exc' = e
    /\ UNCHANGED <<results, ri>>

\* lines 283-284: the except handler builds QCResult(rule['id'], 'Fail', ...);
\* rule['id'] is looked up inside the handler, so a rule without id raises again
HandleException(rule, e) ==
    IF "id" \in DOMAIN rule
    THEN AppendResult(QCResult(rule.id, "Fail", [prefix |-> "rule error", parts |-> <<[kind |-> "exception", error |-> e]>>], <<>>))
    ELSE Propagate("KeyError: 'id'")

\* the QCResult(rule['id'], ...) that ends the try body, then lines 281-282
FinishRule(rule, status, msgs, labels) ==
    IF "id" \in DOMAIN rule
    THEN AppendResult(QCResult(rule.id, status, [prefix |-> Get(rule, "name_cn", rule.id), parts |-> msgs], labels))
    ELSE HandleException(rule, "KeyError: 'id'")

\* lines 259-267
RunQC(view) ==
    /\ pc = "idle"
    /\ current_view' = view
    /\ view_annotations' = ViewAnnotations(annotations, view)
    /\ enabled_rules' = EnabledRules(rules, view)
    /\ results' = <<>>
    /\ ri' = 1
    /\ pc' = "loop"
    /\ UNCHANGED <<rules, annotations, exc, ruleLocals, nonQcVars>>

\* lines 269-278 and the first lines of the rule functions (94-98, 194-196):
\* rule['check_type'] is read before the try; the rest runs inside it
DispatchRule ==
    /\ pc = "loop"
    /\ ri <= Len(enabled_rules)
    /\ LET rule == enabled_rules[ri]
       IN  IF "check_type" \notin DOMAIN rule
           THEN Propagate("KeyError: 'check_type'") /\ UNCHANGED ruleLocals
           ELSE IF rule.check_type \in {"POINT_POSITION_CHECK", "SEGMENTATION_COMPLETENESS"}
           THEN IF "params" \notin DOMAIN rule
                THEN HandleException(rule, "KeyError: 'params'") /\ UNCHANGED ruleLocals
                ELSE /\ pc' = IF rule.check_type = "POINT_POSITION_CHECK"
                              THEN "point_exist" ELSE "seg_missing"
                     /\ rule_status' = "Pass"
                     /\ messages' = <<>>
                     /\ feature_labels' = <<>>
                     /\ si' = 1
                     /\ UNCHANGED <<results, ri, exc>>
           ELSE /\ FinishRule(rule, "Warning",
                              <<[kind |-> "unknown_check_type", check_type |-> rule.check_type]>>,
                              <<>>)
                /\ UNCHANGED ruleLocals
    /\ UNCHANGED <<qcInputs, nonQcVars>>

\* line 286
ReturnResults ==
    /\ pc = "loop"
    /\ ri > Len(enabled_rules)
    /\ pc' = "returned"
    /\ UNCHANGED <<qcInputs, results, ri, exc, ruleLocals, nonQcVars>>

\* lines 101-107, one iteration
PointExistence ==
    /\ pc = "point_exist"
    /\ LET targets == enabled_rules[ri].params.target_labels
       IN  /\ si <= Len(targets)
           /\ LET out == ExistenceStep(targets[si], view_annotations, rule_status)
              IN  /\ rule_status' = out.status
                  /\ messages' = messages \o out.msgs
                  /\ feature_labels' = feature_labels \o out.labels
    /\ si' = si + 1
    /\ UNCHANGED <<qcInputs, results, ri, pc, exc, nonQcVars>>

\* the existence loop ends, the position loop begins (line 110)
PointExistenceDone ==
    /\ pc = "point_exist"
    /\ si > Len(enabled_rules[ri].params.target_labels)
    /\ pc' = "point_position"
    /\ si' = 1
    /\ UNCHANGED <<qcInputs, results, ri, exc, rule_status, messages, feature_labels, nonQcVars>>

\* lines 110-176, one iteration
PointPosition ==
    /\ pc = "point_position"
    /\ LET prs == Get(enabled_rules[ri].params, "position_rules", <<>>)
       IN  /\ si <= Len(prs)
           /\ LET out == PositionStep(prs[si], view_annotations, rule_status)
              IN  /\ rule_status' = out.status
                  /\ messages' = messages \o out.msgs
    /\ si' = si + 1
    /\ UNCHANGED <<qcInputs, results, ri, pc, exc, feature_labels, nonQcVars>>

\* lines 178-189, then run_qc lines 281-282
PointFinish ==
    /\ pc = "point_position"
    /\ si > Len(Get(enabled_rules[ri].params, "position_rules", <<>>))
    /\ rule_status' = PromoteStatus(rule_status, messages)
    /\ FinishRule(enabled_rules[ri], PromoteStatus(rule_status, messages), messages, feature_labels)
    /\ UNCHANGED <<qcInputs, messages, feature_labels, si, nonQcVars>>

\* lines 209-220
SegCompleteness ==
    /\ pc = "seg_missing"
    /\ LET params  == enabled_rules[ri].params
           missing == missing_required(params, view_annotations)
           count   == PresentRequiredCount(params, view_annotations)
       IN  /\ rule_status' = CompletenessStatus(rule_status, count, required_min_count(params), missing)
           /\ messages' = messages \o
                (IF count < required_min_count(params)
                 THEN <<[kind |-> "severe_missing", count |-> count, missing |-> missing]>>
                 ELSE IF missing # {}
                 THEN <<[kind |-> "required_missing", missing |-> missing]>>
                 ELSE <<>>)
    /\ pc' = "seg_extra"
    /\ UNCHANGED <<qcInputs, results, ri, exc, feature_labels, si, nonQcVars>>

\* lines 222-226
SegExtra ==
    /\ pc = "seg_extra"
    /\ LET ex == extra(enabled_rules[ri].params, view_annotations)
       IN  /\ rule_status' = ExtraStatus(rule_status, ex)
           /\ messages' = messages \o
                (IF ex # {} THEN <<[kind |-> "extra", labels |-> ex]>> ELSE <<>>)
    /\ pc' = "seg_special"
    /\ UNCHANGED <<qcInputs, results, ri, exc, feature_labels, si, nonQcVars>>

\* lines 228-236
SegSpecial ==
    /\ pc = "seg_special"
    /\ LET params  == enabled_rules[ri].params
           base    == required_labels_base(params)
           present == present_labels(params, view_annotations)
           po      == present_optional(params, view_annotations)
       IN  /\ rule_status' = SpecialStatus(rule_status, base, present)
           /\ messages' = messages
                \o (IF L5Applies(rule_status, base, present)
                    THEN <<[kind |-> "L5_missing"]>> ELSE <<>>)
                \o (IF po # {} THEN <<[kind |-> "optional_present", labels |-> po]>> ELSE <<>>)
    /\ pc' = "seg_sequence"
    /\ UNCHANGED <<qcInputs, results, ri, exc, feature_labels, si, nonQcVars>>

\* lines 238-257, then run_qc lines 281-282
SegSequence ==
    /\ pc = "seg_sequence"
    /\ LET params == enabled_rules[ri].params
           quiet  == /\ missing_required(params, view_annotations) = {}
                     /\ extra(params, view_annotations) = {}
                     /\ rule_status = "Pass"
       IN  \E labels \in sequence_check_labels(params, view_annotations) :
             LET chk  == _check_sequence(view_annotations, labels, params.label_type)
                 on   == Get(params, "sequence_check", FALSE)
                 st   == IF on THEN SequenceStatus(rule_status, chk.is_correct) ELSE rule_status
                 msgs == messages \o
                         (IF ~on THEN <<>>
                          ELSE IF ~chk.is_correct
                          THEN <<[kind |-> "sequence_error", reported |-> chk.reported]>>
                          ELSE IF quiet /\ present_optional(params, view_annotations) # {}
                          THEN <<[kind |-> "sequence_ok_special"]>>
                          ELSE IF quiet
                          THEN <<[kind |-> "sequence_ok"]>>
                          ELSE <<>>)
             IN  /\ rule_status' = st
                 /\ messages' = msgs
                 /\ FinishRule(enabled_rules[ri], st, msgs, all_expected_labels(params))
    /\ UNCHANGED <<qcInputs, feature_labels, si, nonQcVars>>

----------------------------------------------------------------------------
(* Inputs of the rule engine *)

Views == {"AP", "LAT"}

MaxRules == 3

MaxPositionRules == 2

\* all lists over S of length at most n
SeqsUpTo(S, n) == UNION {[1..k -> S] : k \in 0..n}

Pt(label, x, y) == AnnotationFeature(label, "point", <<Point(x, y)>>, "AP")

Poly(label, y) == AnnotationFeature(label, "polygon", <<Point(500, y)>>, "AP")

NoGeometry(label, type) == AnnotationFeature(label, type, <<>>, "AP")

PointParams0 ==
    [target_labels  |-> <<[label |-> "FH", required |-> TRUE]>>,
     position_rules |-> <<[target |-> "FH", check |-> "ABSOLUTE_X", operator |-> "<",
                           threshold |-> 500, message |-> "left of midline"]>>]

SegParams0 ==
    [required_labels_group |-> "LUMBAR", label_type |-> "polygon", sequence_check |-> TRUE]

\* rules of every shape run_qc distinguishes: both check types, an unknown
\* type, a disabled rule, a rule without the enabled key, a rule of another
\* view, and configuration entries lacking check_type, id or params
RulePool ==
    { [id |-> "P1", name_cn |-> "points", check_type |-> "POINT_POSITION_CHECK",
       view |-> "AP", enabled |-> TRUE, params |-> PointParams0],
      [id |-> "S1", check_type |-> "SEGMENTATION_COMPLETENESS",
       view |-> "AP", enabled |-> TRUE, params |-> SegParams0],
      [id |-> "U1", check_type |-> "ANGLE_CHECK", view |-> "AP", enabled |-> TRUE,
       params |-> [x |-> 0]],
      [id |-> "D1", check_type |-> "POINT_POSITION_CHECK",
       view |-> "AP", enabled |-> FALSE, params |-> PointParams0],
      [id |-> "E1", check_type |-> "POINT_POSITION_CHECK",
       view |-> "AP", params |-> PointParams0],
      [id |-> "V1", check_type |-> "SEGMENTATION_COMPLETENESS",
       view |-> "LAT", enabled |-> TRUE, params |-> SegParams0],
      [id |-> "N1", view |-> "AP", enabled |-> TRUE, params |-> PointParams0],
      [check_type |-> "POINT_POSITION_CHECK", view |-> "AP", enabled |-> TRUE,
       params |-> PointParams0],
      [id |-> "M1", check_type |-> "SEGMENTATION_COMPLETENESS", view |-> "AP",
       enabled |-> TRUE] }

\* feature lists for the rule-list runs: features of both views
RunAnnotations ==
    { <<>>,
      <<Pt("FH", 400, 700), Poly("L3", 300), Poly("L4", 400), Poly("L5", 500),
        AnnotationFeature("L5", "polygon", <<Point(500, 500)>>, "LAT")>>,
      <<Pt("FH", 600, 700), Poly("L4", 400), Poly("L3", 380)>> }

\* position rules of a point rule
PositionRulePool ==
    { [target |-> "FH", check |-> "ABSOLUTE_X", operator |-> "<", threshold |-> 500,
       message |-> "m"],
      [target |-> "FH", check |-> "ABSOLUTE_X", operator |-> ">", threshold |-> 500,
       message |-> "m"],
      [target |-> "FH", check |-> "ABSOLUTE_Y", operator |-> "<", threshold |-> 500,
       message |-> "m"],
      [target |-> "FH", check |-> "RELATIVE_Y", operator |-> ">", relative_to |-> "REF",
       message |-> "m"],
      [target |-> "FH", check |-> "RELATIVE_Y", operator |-> "<", relative_to |-> "L5",
       message |-> "m"],
      [target |-> "C7", check |-> "RELATIVE_X", operator |-> "<", relative_to |-> "REF",
       message |-> "m"] }

TargetLists ==
    { <<[label |-> "FH", required |-> TRUE]>>,
      <<[label |-> "FH", required |-> FALSE]>>,
      <<[label |-> "FH", required |-> TRUE], [label |-> "C7", required |-> FALSE]>>,
      <<[label |-> "FH", required |-> FALSE], [label |-> "C7", required |-> TRUE]>> }

\* params of a point rule; position_rules may be left out (params.get)
PointParamsSet ==
    {[target_labels |-> t, position_rules |-> p] :
        t \in TargetLists, p \in SeqsUpTo(PositionRulePool, MaxPositionRules)}
    \cup {[target_labels |-> t] : t \in TargetLists}

\* feature lists for a point rule: each label absent, present without
\* geometry, or present at a position on either side of a comparison
PointAnnotations ==
    { fh \o c7 \o ref \o l5 :
        fh  \in {<<>>, <<NoGeometry("FH", "point")>>, <<Pt("FH", 495, 495)>>,
                 <<Pt("FH", 496, 496)>>, <<Pt("FH", 504, 504)>>, <<Pt("FH", 505, 505)>>},
        c7  \in {<<>>, <<Pt("C7", 520, 100)>>},
        ref \in {<<>>, <<NoGeometry("REF", "point")>>, <<Pt("REF", 500, 500)>>},
        l5  \in {<<>>, <<Poly("L5", 600)>>} }

\* params of a segmentation rule
SegParamsSet ==
    { [k \in (DOMAIN base) \cup (DOMAIN mc) \cup (DOMAIN sc) |->
         IF k \in DOMAIN base THEN base[k] ELSE IF k \in DOMAIN mc THEN mc[k] ELSE sc[k]] :
        base \in {[required_labels_group |-> g, label_type |-> "polygon", optional_labels |-> o] :
                    g \in {"LUMBAR", "SACRAL"}, o \in {<<>>, <<"L6">>, <<"L6", "S1">>}},
        mc   \in {<<>>, [required_min_count |-> 2], [required_min_count |-> 3]},
        sc   \in {<<>>, [sequence_check |-> TRUE]} }

\* feature lists for a segmentation rule
SegAnnotations ==
    { l2 \o l3 \o l4 \o l5 \o l6 \o s1 \o p5 :
        l2 \in {<<>>, <<Poly("L2", 50)>>},
        l3 \in {<<>>, <<Poly("L3", 100)>>},
        l4 \in {<<>>, <<Poly("L4", 94)>>, <<Poly("L4", 200)>>},
        l5 \in {<<>>, <<Poly("L5", 150)>>, <<Poly("L5", 300)>>},
        l6 \in {<<>>, <<Poly("L6", 400)>>},
        s1 \in {<<>>, <<Poly("S1", 450)>>},
        p5 \in {<<>>, <<Pt("L5", 500, 10)>>} }

PointRule(params) ==
    [id |-> "P1", name_cn |-> "points", check_type |-> "POINT_POSITION_CHECK",
     view |-> "AP", enabled |-> TRUE, params |-> params]

SegRule(params) ==
    [id |-> "S1", check_type |-> "SEGMENTATION_COMPLETENESS",
     view |-> "AP", enabled |-> TRUE, params |-> params]

\* the state before run_qc is called
QCIdle ==
    /\ current_view = ""
    /\ view_annotations = <<>>
    /\ enabled_rules = <<>>
    /\ results = <<>>
    /\ ri = 1
    /\ pc = "idle"
    /\ exc = ""
    /\ rule_status = "Pass"
    /\ messages = <<>>
    /\ feature_labels = <<>>
    /\ si = 1

SeqIdle ==
    /\ seq_labels = <<>>
    /\ seq_out = <<>>

\* no label mapping configured (config.get('label_mapping', {}))
MapIdle ==
    /\ label_mapping = <<>>
    /\ map_out = <<>>

\* a parser just constructed, no file system looked at
ParseIdle ==
    /\ mirror_x = FALSE
    /\ _reverse_map = <<>>
    /\ fs = <<>>
    /\ parse_out = <<>>

\* find_cases_and_process not called
CaseIdle ==
    /\ run_context = <<>>
    /\ ci = 1
    /\ case_pc = "idle"
    /\ ALL_CASE_RESULTS = <<>>
    /\ case_log = <<>>

\* any rule list of the pool, a few feature lists
InitRun ==
    /\ rules \in SeqsUpTo(RulePool, MaxRules)
    /\ annotations \in RunAnnotations
    /\ QCIdle /\ SeqIdle /\ MapIdle /\ ParseIdle /\ CaseIdle

\* one point rule with any params, any point feature list
InitPoint ==
    /\ rules \in {<<PointRule(p)>> : p \in PointParamsSet}
    /\ annotations \in PointAnnotations
    /\ QCIdle /\ SeqIdle /\ MapIdle /\ ParseIdle /\ CaseIdle

\* one segmentation rule with any params, any segmentation feature list
InitSeg ==
    /\ rules \in {<<SegRule(p)>> : p \in SegParamsSet}
    /\ annotations \in SegAnnotations
    /\ QCIdle /\ SeqIdle /\ MapIdle /\ ParseIdle /\ CaseIdle

NextRun ==
    \/ \E view \in Views : RunQC(view)
    \/ DispatchRule
    \/ ReturnResults
    \/ PointExistence
    \/ PointExistenceDone
    \/ PointPosition
    \/ PointFinish
    \/ SegCompleteness
    \/ SegExtra
    \/ SegSpecial
    \/ SegSequence

NextPoint ==
    \/ \E view \in Views : RunQC(view)
    \/ DispatchRule
    \/ ReturnResults
    \/ PointExistence
    \/ PointExistenceDone
    \/ PointPosition
    \/ PointFinish

NextSeg ==
    \/ \E view \in Views : RunQC(view)
    \/ DispatchRule
    \/ ReturnResults
    \/ SegCompleteness
    \/ SegExtra
    \/ SegSpecial
    \/ SegSequence

\* run_qc over rule lists
SpecRun == InitRun /\ [][NextRun]_vars

\* run_qc over one POINT_POSITION_CHECK rule
SpecPoint == InitPoint /\ [][NextPoint]_vars

\* run_qc over one SEGMENTATION_COMPLETENESS rule
SpecSeg == InitSeg /\ [][NextSeg]_vars

\* run_qc over all of these inputs
SpecQC == (InitRun \/ InitPoint \/ InitSeg) /\ [][NextRun]_vars

----------------------------------------------------------------------------
(* Properties of the rule engine *)

Rank(status) == CASE status = "Pass" -> 0 [] status = "Warning" -> 1 [] status = "Fail" -> 2

EvalPcs == {"point_exist", "point_position", "seg_missing", "seg_extra",
            "seg_special", "seg_sequence"}

\* positions in self.rules of the rules that are enabled for the requested view
EnabledIndexes ==
    {i \in 1..Len(rules) :
        /\ "enabled" \in DOMAIN rules[i] /\ rules[i].enabled
        /\ "view" \in DOMAIN rules[i] /\ rules[i].view = current_view}

\* the k-th smallest element of a set of numbers
Kth(S, k) == CHOOSE i \in S : Cardinality({j \in S : j < i}) = k - 1

\* a feature with this label is in the list
Occurs(anns, label) == \E i \in 1..Len(anns) : anns[i].label = label

\* a feature with this label and a center is in the list
OccursWithCenter(anns, label) ==
    \E i \in 1..Len(anns) : anns[i].label = label /\ Len(anns[i].points) > 0

\* the result has a message part of this kind about this label
Names(res, kind, label) ==
    \E i \in 1..Len(res.message.parts) :
        /\ res.message.parts[i].kind = kind
        /\ res.message.parts[i].label = label

HasPart(res, kind) ==
    \E i \in 1..Len(res.message.parts) : res.message.parts[i].kind = kind

\* C1: when run_qc returns, the results are, in configuration order, exactly
\* one per rule that is enabled and of the requested view, and none for a
\* disabled rule or a rule of another view.
C1_OneResultPerEnabledRule ==
    pc = "returned" =>
        /\ Len(results) = Cardinality(EnabledIndexes)
        /\ \A k \in 1..Len(results) :
              results[k].rule_id = rules[Kth(EnabledIndexes, k)].id

\* C1 witness: a run returned two results of different rules and skipped a rule
C1_Witness ==
    /\ pc = "returned"
    /\ Len(results) = 2
    /\ Len(rules) = 3
    /\ results[1].rule_id # results[2].rule_id
    /\ "enabled" \in DOMAIN rules[2] /\ ~rules[2].enabled

\* the configuration entry makes its evaluation raise
Malformed(rule) ==
    \/ "check_type" \notin DOMAIN rule
    \/ "id" \notin DOMAIN rule
    \/ "params" \notin DOMAIN rule

\* C2: no exception leaves run_qc; when it returns, every enabled rule of the
\* view has its result and a rule whose evaluation raised has status Fail.
C2_RuleIsolation ==
    /\ pc # "raised"
    /\ pc = "returned" =>
          /\ Len(results) = Len(enabled_rules)
          /\ \A k \in 1..Len(results) :
                (Malformed(enabled_rules[k])
                    /\ enabled_rules[k].check_type
                         \in {"POINT_POSITION_CHECK", "SEGMENTATION_COMPLETENESS"})
                => results[k].status = "Fail"

\* a step of the evaluation of a rule keeps or raises the status
StatusNeverLowered ==
    pc \in EvalPcs =>
        (/\ Rank(rule_status') >= Rank(rule_status)
         /\ (Len(results') > Len(results)
                => Rank(results'[Len(results')].status) >= Rank(rule_status)))

\* C3: while one rule is evaluated no step lowers rule_status, and the status
\* of the result appended for the rule is not below the status reached.
C3_StatusMonotone == [][StatusNeverLowered]_vars

\* C3 witness: a status that rose to Warning and then to Fail
C3_Witness ==
    /\ pc = "point_position"
    /\ rule_status = "Fail"
    /\ Len(messages) = 2
    /\ messages[1].kind = "reference_missing"
    /\ messages[2].kind = "misplaced"

\* the results of POINT_POSITION_CHECK rules under SpecPoint (every rule is
\* well formed there, so results[k] is the result of enabled_rules[k])
PointResults ==
    {k \in 1..Len(results) : enabled_rules[k].check_type = "POINT_POSITION_CHECK"}

\* C4: a required target label that does not occur among the features makes
\* the result Fail, with a message naming the label as missing, and the label
\* is not among the result's feature_labels.
C4_RequiredAbsentFails ==
    \A k \in PointResults :
        \A t \in Range(enabled_rules[k].params.target_labels) :
            (t.required /\ ~Occurs(view_annotations, t.label)) =>
                /\ results[k].status = "Fail"
                /\ Names(results[k], "missing_required", t.label)
                /\ t.label \notin Range(results[k].feature_labels)

\* C4 witness: a Fail whose only cause is the absent required target, in a
\* rule whose position rules were evaluated on a present target and passed
C4_Witness ==
    /\ pc = "returned"
    /\ Len(results) = 1
    /\ results[1].status = "Fail"
    /\ Len(results[1].message.parts) = 1
    /\ Names(results[1], "missing_required", "C7")
    /\ results[1].feature_labels = <<"FH">>
    /\ OccursWithCenter(view_annotations, "FH")
    /\ "position_rules" \in DOMAIN enabled_rules[1].params
    /\ Len(enabled_rules[1].params.position_rules) = 2

\* the relative position rules of rule k whose target is present
RelativeRules(k) ==
    {pr \in Range(Get(enabled_rules[k].params, "position_rules", <<>>)) :
        pr.check \in {"RELATIVE_Y", "RELATIVE_X"}}

\* an absolute-X rule of rule k that its present target violates
AbsoluteViolation(k) ==
    \E pr \in Range(Get(enabled_rules[k].params, "position_rules", <<>>)) :
        /\ pr.check = "ABSOLUTE_X"
        /\ \E i \in 1..Len(view_annotations) :
              LET f == view_annotations[i]
              IN  /\ f.label = pr.target /\ Len(f.points) > 0
                  /\ \A j \in 1..(i - 1) :
                        ~(view_annotations[j].label = pr.target
                          /\ Len(view_annotations[j].points) > 0)
                  /\ \/ pr.operator = "<" /\ Center(f).x >= pr.threshold + POSITION_TOLERANCE
                     \/ pr.operator = ">" /\ Center(f).x <= pr.threshold - POSITION_TOLERANCE

RequiredAbsent(k) ==
    \E t \in Range(enabled_rules[k].params.target_labels) :
        t.required /\ ~Occurs(view_annotations, t.label)

\* C5 amended: when the target has a center and the reference has no center
\* to use (no feature of that label with a center, and the label is not in
\* the anatomical order list), the result names the missing reference, its
\* status is Warning or Fail, and it is Fail only if a required target is
\* absent or an absolute-position rule is violated.
C5_MissingReferenceWarns ==
    \A k \in PointResults :
        \A pr \in RelativeRules(k) :
            (/\ OccursWithCenter(view_annotations, pr.target)
             /\ ~OccursWithCenter(view_annotations, pr.relative_to)
             /\ pr.relative_to \notin Range(vertebra_order_list))
            => /\ results[k].status \in {"Warning", "Fail"}
               /\ Names(results[k], "reference_missing", pr.relative_to)
               /\ results[k].status = "Fail" => (RequiredAbsent(k) \/ AbsoluteViolation(k))

\* C5 as stated: target present (with a center) and reference label missing
\* from the features gives status Warning; taken where nothing else of the
\* rule can fail: no required target absent, no absolute rule violated,
\* every relative rule of the rule with its reference missing.
C5_MissingReferenceIsWarning ==
    \A k \in PointResults :
        (/\ ~RequiredAbsent(k)
         /\ ~AbsoluteViolation(k)
         /\ RelativeRules(k) # {}
         /\ \A pr \in RelativeRules(k) :
               /\ OccursWithCenter(view_annotations, pr.target)
               /\ ~Occurs(view_annotations, pr.relative_to))
        => results[k].status = "Warning"

\* C5 witness: the missing reference alone, every other sub-check passing
C5_Witness ==
    /\ pc = "returned"
    /\ Len(results) = 1
    /\ results[1].status = "Warning"
    /\ Len(results[1].message.parts) = 1
    /\ Names(results[1], "reference_missing", "REF")
    /\ Len(enabled_rules[1].params.position_rules) = 2
    /\ Occurs(view_annotations, "REF")

\* the results of SEGMENTATION_COMPLETENESS rules under SpecSeg
SegResults ==
    {k \in 1..Len(results) : enabled_rules[k].check_type = "SEGMENTATION_COMPLETENESS"}

\* labels of the features of the rule's label type
TypedLabels(k) ==
    {f.label : f \in {g \in Range(view_annotations) :
                        g.type = enabled_rules[k].params.label_type}}

RequiredGroup(k) ==
    LET p == enabled_rules[k].params
    IN  IF p.required_labels_group \in DOMAIN vertebra_range_groups
        THEN Range(vertebra_range_groups[p.required_labels_group]) ELSE {}

MinCount(k) ==
    LET p == enabled_rules[k].params
    IN  IF "required_min_count" \in DOMAIN p THEN p.required_min_count
        ELSE Cardinality(RequiredGroup(k))

\* no extra label and no inversion reported
CleanSegmentation(k) ==
    /\ TypedLabels(k) \subseteq
          RequiredGroup(k) \cup Range(Get(enabled_rules[k].params, "optional_labels", <<>>))
    /\ ~HasPart(results[k], "sequence_error")

\* C6 as stated: without extra labels and inversions, a present required
\* count equal to the minimum gives Pass, one below the minimum gives Fail.
C6_BoundaryPasses ==
    \A k \in SegResults :
        CleanSegmentation(k) =>
            LET count == Cardinality(RequiredGroup(k) \cap TypedLabels(k))
            IN  /\ count = MinCount(k) => results[k].status = "Pass"
                /\ count = MinCount(k) - 1 => results[k].status = "Fail"

\* C6 amended: at the minimum the status is not Fail: Pass when no required
\* label is missing, Warning when one is; one below the minimum it is Fail.
C6_BoundaryNotFail ==
    \A k \in SegResults :
        CleanSegmentation(k) =>
            LET count == Cardinality(RequiredGroup(k) \cap TypedLabels(k))
            IN  /\ count = MinCount(k) =>
                      results[k].status =
                          IF RequiredGroup(k) \subseteq TypedLabels(k) THEN "Pass" ELSE "Warning"
                /\ count = MinCount(k) - 1 => results[k].status = "Fail"

\* C6 witness: exactly the configured minimum present, a required label missing
C6_Witness ==
    /\ pc = "returned"
    /\ Len(results) = 1
    /\ CleanSegmentation(1)
    /\ "required_min_count" \in DOMAIN enabled_rules[1].params
    /\ MinCount(1) = 2
    /\ Cardinality(RequiredGroup(1) \cap TypedLabels(1)) = 2
    /\ results[1].status = "Warning"

----------------------------------------------------------------------------
(* The sequence checker called on its own *)

\* Y centers on either side of the tolerance: 6 -> 1 is within it, 6 -> 0 is not
SeqYs == {0, 1, 6, 12, 18, 24}

SeqOptions(label) ==
    {<<>>, <<NoGeometry(label, "polygon")>>} \cup {<<Poly(label, y)>> : y \in SeqYs}

\* feature lists: each label absent, without geometry, or at one of the Ys;
\* L4 may also be a feature of another type
SeqAnnotations ==
    { l2 \o l3 \o l4 \o l5 \o l6 :
        l2 \in SeqOptions("L2"), l3 \in SeqOptions("L3"),
        l4 \in SeqOptions("L4") \cup {<<Pt("L4", 500, 0)>>},
        l5 \in SeqOptions("L5"), l6 \in SeqOptions("L6") }

SeqLabelLists == {vertebra_order_list, <<"L5", "L3">>, <<"L4">>}

InitSeq ==
    /\ annotations \in SeqAnnotations
    /\ seq_labels \in SeqLabelLists
    /\ seq_out = <<>>
    /\ rules = <<>>
    /\ QCIdle /\ MapIdle /\ ParseIdle /\ CaseIdle

\* _check_sequence(annotations, expected_labels, target_type), lines 53-90
CheckSequence(target_type) ==
    /\ seq_out = <<>>
    /\ seq_out' = <<[type |-> target_type,
                     out  |-> _check_sequence(annotations, seq_labels, target_type)]>>
    /\ UNCHANGED <<qcVars, seq_labels, mapVars, parseVars, caseVars>>

NextSeq == \E t \in {"polygon", "point"} : CheckSequence(t)

SpecSeq == InitSeq /\ [][NextSeq]_vars

\* positions in expected_labels whose label has a feature of the type with a center
Comparable(type) ==
    {i \in 1..Len(seq_labels) :
        \E f \in Range(annotations) :
            f.label = seq_labels[i] /\ f.type = type /\ Len(f.points) > 0}

YAt(type, i) ==
    Center(CHOOSE f \in Range(annotations) :
              f.label = seq_labels[i] /\ f.type = type /\ Len(f.points) > 0).y

\* consecutive comparable positions whose Y drops by more than the tolerance
InvertedPairs(type) ==
    {p \in Comparable(type) \X Comparable(type) :
        /\ p[1] < p[2]
        /\ \A m \in Comparable(type) : ~(p[1] < m /\ m < p[2])
        /\ YAt(type, p[2]) < YAt(type, p[1]) - POSITION_TOLERANCE}

\* the label pairs of the first n inverted pairs, in list order
FirstInverted(type, n) ==
    LET inv == InvertedPairs(type)
        k   == Min2(n, Cardinality(inv))
    IN  [j \in 1..k |->
            LET p == CHOOSE q \in inv : Cardinality({r \in inv : r[1] < q[1]}) = j - 1
            IN  <<seq_labels[p[1]], seq_labels[p[2]]>>]

\* the label pairs the explanation names
NamedPairs(res) == [j \in 1..Len(res.reported) |-> <<res.reported[j].prev, res.reported[j].cur>>]

\* C7 as stated: not-ordered exactly when some consecutive pair is inverted,
\* the explanation naming each inverted pair; fewer than two comparable
\* features give ordered.
C7_ReportsEveryInversion ==
    seq_out # <<>> =>
        LET t   == Head(seq_out).type
            res == Head(seq_out).out
            inv == InvertedPairs(t)
        IN  /\ res.is_correct = (inv = {})
            /\ Cardinality(Comparable(t)) < 2 => res.is_correct
            /\ NamedPairs(res) = FirstInverted(t, Cardinality(inv))

\* C7 amended: as stated, but every inverted pair is collected and the
\* explanation names the first three of them only.
C7_ReportsFirstThree ==
    seq_out # <<>> =>
        LET t   == Head(seq_out).type
            res == Head(seq_out).out
            inv == InvertedPairs(t)
        IN  /\ res.is_correct = (inv = {})
            /\ Cardinality(Comparable(t)) < 2 => res.is_correct
            /\ res.error_pairs = FirstInverted(t, Cardinality(inv))
            /\ NamedPairs(res) = FirstInverted(t, 3)

\* C7 witness: five features each above its predecessor: four inverted
\* pairs collected, the first three named
C7_Witness ==
    /\ seq_out # <<>>
    /\ seq_labels = vertebra_order_list
    /\ Head(seq_out).type = "polygon"
    /\ ~Head(seq_out).out.is_correct
    /\ Len(Head(seq_out).out.error_pairs) = 4
    /\ NamedPairs(Head(seq_out).out) = << <<"L2", "L3">>, <<"L3", "L4">>, <<"L4", "L5">> >>

----------------------------------------------------------------------------
(* data_parser.py: DataParser label maps *)

(* A standard_to_actual_map is a Python dict, whose iteration order is its   *)
(* insertion order: a list of <<standard_label, value>> entries with         *)
(* distinct keys.  A value is [list |-> TRUE, items |-> synonyms] for a      *)
(* list and [list |-> FALSE, ...] for anything else (isinstance at line 67). *)

\* depth at which the interpreter stops a recursion with RecursionError
RecursionLimit == 6

DictKeys(d) == {d[i][1] : i \in 1..Len(d)}

DictValue(d, k) == (CHOOSE e \in Range(d) : e[1] = k)[2]

\* DictSet merging the new synonyms into the list already there
DictSet_Merge(d, k, v) ==
    IF k \in DictKeys(d)
    THEN [i \in 1..Len(d) |->
            IF d[i][1] = k
            THEN <<k, [list |-> d[i][2].list /\ v.list, items |-> d[i][2].items \o v.items]>>
            ELSE d[i]]
    ELSE Append(d, <<k, v>>)

\* d[k] = v: an existing key keeps its place, a new key goes last
DictSet(d, k, v) ==
    IF k \in DictKeys(d)
    THEN [i \in 1..Len(d) |-> IF d[i][1] = k THEN <<k, v>> ELSE d[i]]
    ELSE Append(d, <<k, v>>)

\* d.update(over)
RECURSIVE DictUpdate(_, _)
DictUpdate(d, over) ==
    IF over = <<>> THEN d
    ELSE DictUpdate(DictSet(d, Head(over)[1], Head(over)[2]), Tail(over))

Returned(v) == [ok |-> TRUE, value |-> v]

Raised(e) == [ok |-> FALSE, error |-> e]

\* _get_effective_map(view) entered with `depth` frames of it on the stack;
\* the recursion has no cycle check, the interpreter ends it at its limit
RECURSIVE EffectiveMapFrom(_, _, _)
EffectiveMapFrom(lm, view, depth) ==
    IF depth >= RecursionLimit THEN Raised("RecursionError")
    ELSE IF view \notin DOMAIN lm \/ DOMAIN lm[view] = {}
    THEN Returned(<<>>)
    ELSE LET view_config == lm[view]
             current_map == Get(view_config, "standard_to_actual_map", <<>>)
         IN  IF "_extends" \in DOMAIN view_config
             THEN LET parent == EffectiveMapFrom(lm, view_config["_extends"], depth + 1)
                  IN  IF parent.ok
                      THEN Returned(DictUpdate(parent.value, current_map))
                      ELSE parent
             ELSE Returned(current_map)

\* lines 49-61
_get_effective_map(lm, view) == EffectiveMapFrom(lm, view, 0)

\* the loop of lines 66-69 over the items from the i-th on: a later
\* assignment to reverse_map[actual_label] replaces an earlier one
RECURSIVE ReverseFrom(_, _)
ReverseFrom(full, i) ==
    IF i > Len(full) THEN <<>>
    ELSE LET std    == full[i][1]
             v      == full[i][2]
             later  == ReverseFrom(full, i + 1)
             mine   == IF v.list THEN Range(v.items) ELSE {}
         IN  [a \in mine \cup DOMAIN later |-> IF a \in DOMAIN later THEN later[a] ELSE std]

\* lines 63-70
_build_reverse_map(lm, view) ==
    LET full == _get_effective_map(lm, view)
    IN  IF full.ok THEN Returned(ReverseFrom(full.value, 1)) ELSE full

----------------------------------------------------------------------------
(* Inputs of the label-map resolver *)

MapViews == {"AP", "LAT", "OBL"}

List(items) == [list |-> TRUE, items |-> items]

\* the values a standard label is given
SynonymValues == {List(<<"a">>), List(<<"b">>), List(<<"a", "b">>)}

\* maps of one or two standard labels, in either insertion order, and one
\* whose value is not a list
OwnMaps ==
    {<<>>}
    \cup {<< <<l, v>> >> : l \in {"L4", "L5"}, v \in SynonymValues}
    \cup {<< <<ls[1], List(<<"a">>)>>, <<ls[2], v>> >> :
            ls \in {<<"L4", "L5">>, <<"L5", "L4">>}, v \in SynonymValues}
    \cup {<< <<"L4", [list |-> FALSE, items |-> <<"a">>]>> >>}

\* a view configuration: its own map with or without _extends, or empty ({})
ViewConfigs(maps) ==
    {[k \in {"standard_to_actual_map"} |-> m] : m \in maps}
    \cup {[k \in {"standard_to_actual_map", "_extends"} |->
             IF k = "_extends" THEN e ELSE m] : m \in maps, e \in MapViews}
    \cup {[k \in {"_extends"} |-> e] : e \in MapViews}
    \cup {<<>>}

\* label_mapping: AP and LAT with any configuration, OBL with a small map or
\* none; a view may also be absent from label_mapping
LabelMappings ==
    { [v \in present |-> IF v = "AP" THEN ap ELSE IF v = "LAT" THEN lat ELSE obl] :
        present \in {{"AP", "LAT", "OBL"}, {"AP", "LAT"}, {"AP"}},
        ap  \in ViewConfigs(OwnMaps),
        lat \in ViewConfigs(OwnMaps),
        obl \in ViewConfigs({<<>>, << <<"L5", List(<<"c">>)>> >>}) }

InitMap ==
    /\ label_mapping \in LabelMappings
    /\ map_out = <<>>
    /\ rules = <<>>
    /\ annotations = <<>>
    /\ QCIdle /\ SeqIdle /\ ParseIdle /\ CaseIdle

\* a call of _get_effective_map(view)
CallGetEffectiveMap(view) ==
    /\ map_out = <<>>
    /\ map_out' = <<[op |-> "effective", view |-> view,
                     out |-> _get_effective_map(label_mapping, view)]>>
    /\ UNCHANGED <<qcVars, seqVars, label_mapping, parseVars, caseVars>>

\* a call of _build_reverse_map(view)
CallBuildReverseMap(view) ==
    /\ map_out = <<>>
    /\ map_out' = <<[op |-> "reverse", view |-> view,
                     out |-> _build_reverse_map(label_mapping, view)]>>
    /\ UNCHANGED <<qcVars, seqVars, label_mapping, parseVars, caseVars>>

NextMap ==
    \/ \E view \in MapViews : CallGetEffectiveMap(view)
    \/ \E view \in MapViews : CallBuildReverseMap(view)

SpecMap == InitMap /\ [][NextMap]_vars

\* the views reached from view by following _extends one to n times
RECURSIVE ExtendsReach(_, _, _)
ExtendsReach(lm, view, n) ==
    IF n = 0 \/ view \notin DOMAIN lm \/ "_extends" \notin DOMAIN lm[view] THEN {}
    ELSE {lm[view]["_extends"]} \cup ExtendsReach(lm, lm[view]["_extends"], n - 1)

\* the view is on a cycle of _extends references
OnCycle(lm, view) == view \in ExtendsReach(lm, view, Cardinality(MapViews))

\* the value the nearest view of the chain, from view upward, gives to a
\* standard label; <<>> when none defines it (only used on chains without a cycle)
RECURSIVE NearestDefinition(_, _, _)
NearestDefinition(lm, view, label) ==
    IF view \notin DOMAIN lm THEN <<>>
    ELSE LET own == Get(lm[view], "standard_to_actual_map", <<>>)
         IN  IF label \in DictKeys(own) THEN <<DictValue(own, label)>>
             ELSE IF "_extends" \in DOMAIN lm[view]
             THEN NearestDefinition(lm, lm[view]["_extends"], label)
             ELSE <<>>

StandardLabels == {"L4", "L5"}

\* C8: for a view that extends a parent, the effective map gives every
\* standard label the child defines exactly the child's value and every
\* other label the value the parent chain gives it; synonyms of the parent
\* that the child's list drops no longer reverse-map to the label; a view
\* without configuration yields the empty map.
C8_ChildReplacesParent ==
    map_out # <<>> /\ Head(map_out).out.ok =>
        LET c   == Head(map_out)
            lm  == label_mapping
            res == c.out.value
        IN  IF c.view \notin DOMAIN lm \/ DOMAIN lm[c.view] = {}
            THEN res = <<>>
            ELSE "_extends" \in DOMAIN lm[c.view] =>
                LET own    == Get(lm[c.view], "standard_to_actual_map", <<>>)
                    parent == lm[c.view]["_extends"]
                IN  \A l \in StandardLabels :
                        LET up == NearestDefinition(lm, parent, l)
                        IN  IF c.op = "effective"
                            THEN IF l \in DictKeys(own)
                                 THEN l \in DictKeys(res) /\ DictValue(res, l) = DictValue(own, l)
                                 ELSE IF up # <<>>
                                 THEN l \in DictKeys(res) /\ DictValue(res, l) = Head(up)
                                 ELSE l \notin DictKeys(res)
                            ELSE (l \in DictKeys(own) /\ DictValue(own, l).list /\ up # <<>>) =>
                                    \A syn \in Range(Head(up).items) \ Range(DictValue(own, l).items) :
                                        ~(syn \in DOMAIN res /\ res[syn] = l)

\* C8 witness: AP extends LAT, redefines L4 and inherits L5
C8_Witness ==
    /\ map_out # <<>>
    /\ Head(map_out).op = "effective"
    /\ Head(map_out).view = "AP"
    /\ "AP" \in DOMAIN label_mapping /\ "LAT" \in DOMAIN label_mapping
    /\ "_extends" \in DOMAIN label_mapping["AP"]
    /\ label_mapping["AP"]["_extends"] = "LAT"
    /\ Get(label_mapping["AP"], "standard_to_actual_map", <<>>) = << <<"L4", List(<<"b">>)>> >>
    /\ Get(label_mapping["LAT"], "standard_to_actual_map", <<>>)
          = << <<"L5", List(<<"a">>)>>, <<"L4", List(<<"a", "b">>)>> >>
    /\ Head(map_out).out.ok
    /\ Head(map_out).out.value = << <<"L5", List(<<"a">>)>>, <<"L4", List(<<"b">>)>> >>

\* C9: resolving a view on a cycle of _extends fails with a "label map cycle" error.
C9_CycleIsReported ==
    (map_out # <<>> /\ OnCycle(label_mapping, Head(map_out).view)) =>
        /\ ~Head(map_out).out.ok
        /\ Head(map_out).out.error = "label map cycle"

----------------------------------------------------------------------------
(* data_parser.py: parse_data and the parsers of the two annotation tools.
   A parser operator gives [out, reverse_map, printed]: what the call returns
   or raises, self._reverse_map after it, and what it prints. Coordinates are
   integers chosen so that every division of the code is exact. *)

\* config['config']['normalization_scale']
scale == 1000

Outcome(out, reverse_map, printed) == [out |-> out, reverse_map |-> reverse_map, printed |-> printed]

\* _get_medical_label reusing the reverse map a previous call left behind
_get_medical_label_Cached(lm, rm, actual_label, view) ==
    LET built == IF rm # <<>> THEN Returned(rm) ELSE _build_reverse_map(lm, view)
    IN  IF built.ok
        THEN Outcome(Returned(IF actual_label \in DOMAIN built.value
                              THEN <<built.value[actual_label]>> ELSE <<>>),
                     built.value, <<>>)
        ELSE Outcome(built, rm, <<>>)

\* _get_medical_label handing an unmapped label through as it is
_get_medical_label_Passthrough(lm, rm, actual_label, view) ==
    LET built == _build_reverse_map(lm, view)
    IN  IF built.ok
        THEN Outcome(Returned(IF actual_label \in DOMAIN built.value
                              THEN <<built.value[actual_label]>> ELSE <<actual_label>>),
                     built.value, <<>>)
        ELSE Outcome(built, rm, <<>>)

\* _get_medical_label: the standard label as <<label>>, <<>> for None; it
\* rebuilds self._reverse_map for the view on every call
_get_medical_label(lm, rm, actual_label, view) ==
    LET built == _build_reverse_map(lm, view)
    IN  IF built.ok
        THEN Outcome(Returned(IF actual_label \in DOMAIN built.value
                              THEN <<built.value[actual_label]>> ELSE <<>>),
                     built.value, <<>>)
        ELSE Outcome(built, rm, <<>>)

_normalize_point(x, y, img_w, img_h, mirror) ==
    LET target_x == IF mirror THEN img_w - x ELSE x
    IN  Point((target_x * scale) \div img_w, (y * scale) \div img_h)

feature_type(shape_type) ==
    IF shape_type = "point" THEN "point"
    ELSE IF shape_type = "line" THEN "line"
    ELSE "polygon"

\* the loop of parse_labelme_json over data['shapes'] from the i-th shape on
RECURSIVE LabelmeShapesFrom(_, _, _, _, _, _, _, _, _)
LabelmeShapesFrom(lm, rm, shapes, i, view, img_w, img_h, mirror, acc) ==
    IF i > Len(shapes) THEN Outcome(Returned(acc), rm, <<>>)
    ELSE LET shape == shapes[i]
         IN  IF "label" \notin DOMAIN shape \/ "shape_type" \notin DOMAIN shape
             THEN Outcome(Raised("KeyError"), rm, <<>>)
             ELSE LET r   == _get_medical_label(lm, rm, shape.label, view)
                      pts == Get(shape, "points", <<>>)
                  IN  IF ~r.out.ok THEN r
                      ELSE IF r.out.value = <<>>
                      THEN LabelmeShapesFrom(lm, r.reverse_map, shapes, i + 1, view,
                                             img_w, img_h, mirror, acc)
                      ELSE LabelmeShapesFrom(lm, r.reverse_map, shapes, i + 1, view,
                                             img_w, img_h, mirror,
                               Append(acc, AnnotationFeature(
                                   Head(r.out.value),
                                   feature_type(shape.shape_type),
                                   [j \in 1..Len(pts) |->
                                       _normalize_point(pts[j][1], pts[j][2], img_w, img_h, mirror)],
                                   view)))

parse_labelme_json(lm, rm, node, view, mirror) ==
    IF node.kind = "missing" THEN Outcome(Raised("FileNotFoundError"), rm, <<>>)
    ELSE IF node.kind = "dir" THEN Outcome(Raised("IsADirectoryError"), rm, <<>>)
    ELSE IF ~node.json THEN Outcome(Raised("JSONDecodeError"), rm, <<>>)
    ELSE LET data  == node.data
             img_w == Get(data, "imageWidth", 1)
             img_h == Get(data, "imageHeight", 1)
         IN  IF img_w <= 0 \/ img_h <= 0
             THEN Outcome(Raised("ValueError: Invalid image dimensions"), rm, <<>>)
             ELSE LabelmeShapesFrom(lm, rm, Get(data, "shapes", <<>>), 1, view,
                                    img_w, img_h, mirror, <<>>)

\* the control points of one keypoint file that have at least two coordinates
RECURSIVE ControlPointsFrom(_, _, _)
ControlPointsFrom(control_points, i, standard_label) ==
    IF i > Len(control_points) THEN <<>>
    ELSE LET pos  == control_points[i]
             rest == ControlPointsFrom(control_points, i + 1, standard_label)
         IN  IF Len(pos) >= 2
             THEN <<[standard_label |-> standard_label, x |-> pos[1], y |-> pos[2]]>> \o rest
             ELSE rest

\* the first loop of parse_slicer_data_dir: raw_keypoints of the *.mrk.json
\* files from the i-th file on; an unmapped or unreadable file is skipped
RECURSIVE RawKeypointsFrom(_, _, _, _, _)
RawKeypointsFrom(lm, rm, files, i, view) ==
    IF i > Len(files) THEN <<>>
    ELSE LET file == files[i]
             rest == RawKeypointsFrom(lm, rm, files, i + 1, view)
         IN  IF file.ext # "mrk.json" THEN rest
             ELSE LET r == _get_medical_label(lm, rm, file.base, view)
                  IN  IF ~r.out.ok \/ r.out.value = <<>> THEN rest
                      ELSE IF ~file.json THEN rest
                      ELSE ControlPointsFrom(file.control_points, 1, Head(r.out.value)) \o rest

MinOf(S) == CHOOSE m \in S : \A n \in S : m <= n

MaxOf(S) == CHOOSE m \in S : \A n \in S : m >= n

\* NormalizeAxis without the shift by the minimum
NormalizeAxis_Unshifted(v, lo, hi) == IF hi = lo THEN 0 ELSE (v * scale) \div (hi - lo)

\* (shifted / max(hi - lo, 1e-6)) * scale
NormalizeAxis(v, lo, hi) == IF hi = lo THEN 0 ELSE ((v - lo) * scale) \div (hi - lo)

\* the dynamic-extent normalisation of lines 213-236
SlicerKeypointFeatures(raw_keypoints, view, mirror) ==
    IF raw_keypoints = <<>> THEN <<>>
    ELSE LET xs == {raw_keypoints[i].x : i \in 1..Len(raw_keypoints)}
             ys == {raw_keypoints[i].y : i \in 1..Len(raw_keypoints)}
         IN  [i \in 1..Len(raw_keypoints) |->
                LET kp     == raw_keypoints[i]
                    norm_x == NormalizeAxis(kp.x, MinOf(xs), MaxOf(xs))
                    norm_y == NormalizeAxis(kp.y, MinOf(ys), MaxOf(ys))
                IN  AnnotationFeature(kp.standard_label, "point",
                        <<Point(IF mirror THEN scale - norm_x ELSE norm_x, norm_y)>>, view)]

\* _get_slicer_segmentation_labels: the segment names of the first *.seg.nrrd
\* file, [] when it cannot be read or there is none
_get_slicer_segmentation_labels(files) ==
    LET segs == SelectSeq(files, LAMBDA f : f.ext = "seg.nrrd")
    IN  IF segs = <<>> THEN <<>>
        ELSE IF ~Head(segs).readable THEN <<>>
        ELSE SelectSeq(Head(segs).names, LAMBDA n : n # "")

\* lines 245-256: a region feature at the fixed point for every mapped segment
RECURSIVE SegmentFeaturesFrom(_, _, _, _, _)
SegmentFeaturesFrom(lm, rm, labels, i, view) ==
    IF i > Len(labels) THEN <<>>
    ELSE LET r    == _get_medical_label(lm, rm, labels[i], view)
             rest == SegmentFeaturesFrom(lm, rm, labels, i + 1, view)
         IN  IF r.out.ok /\ r.out.value # <<>>
             THEN <<AnnotationFeature(Head(r.out.value), "polygon", <<Point(500, 500)>>, view)>> \o rest
             ELSE rest

\* every lookup of the call rebuilds the same reverse map as line 179
parse_slicer_data_dir(lm, rm, node, view, mirror) ==
    LET built == _build_reverse_map(lm, view)
    IN  IF ~built.ok THEN Outcome(built, rm, <<>>)
        ELSE LET raw_keypoints == RawKeypointsFrom(lm, built.value, node.files, 1, view)
                 labels        == _get_slicer_segmentation_labels(node.files)
             IN  Outcome(Returned(SlicerKeypointFeatures(raw_keypoints, view, mirror)
                                  \o SegmentFeaturesFrom(lm, built.value, labels, 1, view)),
                         built.value, <<>>)

\* lines 263-273
parse_data(lm, rm, node, annotator_tool, view, mirror) ==
    IF annotator_tool = "labelme" THEN parse_labelme_json(lm, rm, node, view, mirror)
    ELSE IF annotator_tool = "slicer"
    THEN IF node.kind # "dir"
         THEN Outcome(Returned(<<>>), rm, <<"Error: Slicer tool requires a directory path">>)
         ELSE parse_slicer_data_dir(lm, rm, node, view, mirror)
    ELSE Outcome(Raised("ValueError: Unsupported annotator tool"), rm, <<>>)

----------------------------------------------------------------------------
(* Inputs of the parser *)

Paths == {"case.json", "case_dir"}

Tools == {"labelme", "slicer", "via"}

Shape(label, shape_type, points) == [label |-> label, shape_type |-> shape_type, points |-> points]

\* LabelMe documents: dimensions present, absent or not positive; mapped and
\* unmapped labels; points inside and outside the image
LabelmeDocs ==
    {[imageWidth |-> w, imageHeight |-> 4, shapes |-> sh] :
        w \in {0, 2},
        sh \in {<<>>,
                <<Shape("a", "point", <<<<1, 2>>>>)>>,
                <<Shape("zz", "point", <<<<1, 1>>>>), Shape("b", "polygon", <<<<0, 0>>, <<2, 4>>, <<3, 2>>>>)>>}}
    \cup {[shapes |-> <<Shape("a", "line", <<<<0, 0>>, <<1, 1>>>>)>>]}

KeypointFile(base, control_points) == [ext |-> "mrk.json", base |-> base, json |-> TRUE, control_points |-> control_points]

\* Slicer directories: keypoint files mapped, unmapped and unreadable, a
\* control point without coordinates, a segmentation readable or not
SlicerDirs ==
    {<<>>,
     <<KeypointFile("a", <<<<4, 10>>, <<10, 2>>>>), KeypointFile("zz", <<<<0, 0>>>>)>>,
     <<KeypointFile("a", <<<<2, 2, 7>>, <<>>>>),
       [ext |-> "mrk.json", base |-> "b", json |-> FALSE],
       [ext |-> "seg.nrrd", readable |-> TRUE, names |-> <<"b", "", "zz">>]>>,
     <<KeypointFile("b", <<<<0, 4>>, <<4, 0>>, <<10, 10>>>>),
       [ext |-> "seg.nrrd", readable |-> FALSE]>>,
     <<KeypointFile("a", <<<<0, 4>>>>), KeypointFile("b", <<<<10, 10>>, <<4, 0>>>>)>>}

\* what a path leads to
Nodes ==
    {[kind |-> "missing"]}
    \cup {[kind |-> "file", json |-> FALSE]}
    \cup {[kind |-> "file", json |-> TRUE, data |-> d] : d \in LabelmeDocs}
    \cup {[kind |-> "dir", files |-> f] : f \in SlicerDirs}

\* label maps of the parser runs: LAT extends AP and replaces L4; a view
\* that extends itself
ParseLabelMappings ==
    {[AP  |-> [standard_to_actual_map |-> << <<"L4", List(<<"a">>)>>, <<"L5", List(<<"b">>)>> >>],
      LAT |-> [_extends |-> "AP", standard_to_actual_map |-> << <<"L4", List(<<"b">>)>> >>]],
     [AP  |-> [standard_to_actual_map |-> << <<"L4", List(<<"a", "b">>)>> >>],
      LAT |-> [_extends |-> "LAT"]]}

InitParse ==
    /\ label_mapping \in ParseLabelMappings
    /\ mirror_x \in BOOLEAN
    /\ fs \in [Paths -> Nodes]
    /\ _reverse_map = <<>>
    /\ parse_out = <<>>
    /\ map_out = <<>>
    /\ rules = <<>>
    /\ annotations = <<>>
    /\ QCIdle /\ SeqIdle /\ CaseIdle

\* a call of parse_data(file_or_dir_path, annotator_tool, view)
ParseData(file_or_dir_path, annotator_tool, view) ==
    LET r == parse_data(label_mapping, _reverse_map, fs[file_or_dir_path],
                        annotator_tool, view, mirror_x)
    IN  /\ parse_out' = <<[path |-> file_or_dir_path, tool |-> annotator_tool, view |-> view,
                           out |-> r.out, printed |-> r.printed]>>
        /\ _reverse_map' = r.reverse_map
        /\ UNCHANGED <<qcVars, seqVars, mapVars, mirror_x, fs, caseVars>>

NextParse == \E path \in Paths, tool \in Tools, view \in Views : ParseData(path, tool, view)

SpecParse == InitParse /\ [][NextParse]_vars

\* C10: parse_data with tool 'slicer' on a path that is no directory raises
\* an error instead of returning an empty list, and with an unknown tool
\* name raises the unsupported-tool error.
C10_DispatchFailsExplicitly ==
    parse_out # <<>> =>
        LET c == Head(parse_out)
        IN  /\ (c.tool = "slicer" /\ fs[c.path].kind # "dir") => ~c.out.ok
            /\ c.tool \notin {"labelme", "slicer"} =>
                  (~c.out.ok /\ c.out.error = "ValueError: Unsupported annotator tool")

\* the last call of parse_data, when it was for the given tool and returned
ParsedWith(tool) ==
    /\ parse_out # <<>>
    /\ Head(parse_out).tool = tool
    /\ Head(parse_out).out.ok

\* the shapes of the LabelMe document at the path of the last call
ShapesAt(path) == Get(fs[path].data, "shapes", <<>>)

----------------------------------------------------------------------------
(* run_qc.py: find_cases_and_process. The traversal visits the matching
   cases in order; each case is parsed, its features are handed to run_qc,
   and the case's try/except takes whatever either of them raises. *)

MaxCases == 3

\* what the traversal can match under a file_type: the directories, or the
\* files (one of them may be gone again when it is opened)
Matches(node, file_type) ==
    IF file_type = "directory" THEN node.kind = "dir" ELSE node.kind \in {"file", "missing"}

\* the matching paths in traversal order
MatchingCases(fsys, file_type) ==
    SelectSeq([i \in 1..MaxCases |-> i], LAMBDA path : Matches(fsys[path], file_type))

CaseEntry(case_id, tool, view, details) ==
    [case_id |-> case_id, tool |-> tool, view |-> view, details |-> details]

\* lines 141-142 and 180-181 that re-raise instead of printing
AfterCaseError_Abort(next) == "aborted"

\* lines 141-142 and 180-181: the except prints and the traversal goes on
AfterCaseError(next) == next

\* lines 63-103 and the file_type test of lines 108, 145, 182
StartWalk ==
    /\ case_pc = "start"
    /\ case_pc' = IF run_context.file_type \in {"directory", "single_file"} THEN "walk" ELSE "done"
    /\ UNCHANGED <<qcVars, seqVars, mapVars, parseVars, run_context, ci, ALL_CASE_RESULTS, case_log>>

\* lines 125-127 / 163-165 and the branches that do not reach run_qc
ParseCase ==
    /\ case_pc = "walk"
    /\ LET cases == MatchingCases(fs, run_context.file_type)
       IN  /\ ci <= Len(cases)
           /\ LET path == cases[ci]
                  r    == parse_data(label_mapping, _reverse_map, fs[path],
                                     run_context.annotator_tool, run_context.data_view, mirror_x)
              IN  /\ _reverse_map' = r.reverse_map
                  /\ parse_out' = <<[path |-> path, tool |-> run_context.annotator_tool,
                                     view |-> run_context.data_view,
                                     out |-> r.out, printed |-> r.printed]>>
                  /\ IF ~r.out.ok
                     THEN /\ case_log' = Append(case_log, [path |-> path, parse |-> "raised", qc |-> "none"])
                          /\ case_pc' = AfterCaseError("walk")
                          /\ ci' = ci + 1
                          /\ UNCHANGED annotations
                     ELSE IF r.out.value = <<>>
                     THEN /\ case_log' = Append(case_log, [path |-> path, parse |-> "empty", qc |-> "none"])
                          /\ ci' = ci + 1
                          /\ UNCHANGED <<annotations, case_pc>>
                     ELSE /\ annotations' = r.out.value
                          /\ case_pc' = "run_qc"
                          /\ UNCHANGED <<ci, case_log>>
    /\ UNCHANGED <<rules, current_view, view_annotations, enabled_rules, results, ri, pc, exc,
                   ruleLocals, seqVars, mapVars, mirror_x, fs, run_context, ALL_CASE_RESULTS>>

\* line 128 / 166: results = qc_controller.run_qc(annotations, view)
CallRunQC ==
    /\ case_pc = "run_qc"
    /\ RunQC(run_context.data_view)

\* lines 130-142 / 168-181 once run_qc has returned or raised
FinishCase ==
    /\ case_pc = "run_qc"
    /\ pc \in {"returned", "raised"}
    /\ LET path == MatchingCases(fs, run_context.file_type)[ci]
       IN  IF pc = "returned"
           THEN /\ ALL_CASE_RESULTS' = Append(ALL_CASE_RESULTS,
                        CaseEntry(path, run_context.annotator_tool, run_context.data_view, results))
                /\ case_log' = Append(case_log, [path |-> path, parse |-> "features", qc |-> "returned"])
                /\ case_pc' = "walk"
           ELSE /\ case_log' = Append(case_log, [path |-> path, parse |-> "features", qc |-> "raised"])
                /\ case_pc' = AfterCaseError("walk")
                /\ UNCHANGED ALL_CASE_RESULTS
    /\ ci' = ci + 1
    /\ annotations' = <<>>
    /\ current_view' = ""
    /\ view_annotations' = <<>>
    /\ enabled_rules' = <<>>
    /\ results' = <<>>
    /\ ri' = 1
    /\ pc' = "idle"
    /\ exc' = ""
    /\ rule_status' = "Pass"
    /\ messages' = <<>>
    /\ feature_labels' = <<>>
    /\ si' = 1
    /\ UNCHANGED <<rules, seqVars, mapVars, parseVars, run_context>>

\* the traversal is exhausted
FinishWalk ==
    /\ case_pc = "walk"
    /\ ci > Len(MatchingCases(fs, run_context.file_type))
    /\ case_pc' = "done"
    /\ UNCHANGED <<qcVars, seqVars, mapVars, parseVars, run_context, ci, ALL_CASE_RESULTS, case_log>>

----------------------------------------------------------------------------
(* Inputs of the traversal *)

\* the label map of the case runs; view LAT extends itself
CaseLabelMapping ==
    [AP  |-> [standard_to_actual_map |->
                << <<"FH", List(<<"fh">>)>>, <<"L4", List(<<"a">>)>>, <<"L5", List(<<"b">>)>> >>],
     LAT |-> [_extends |-> "LAT"]]

LabelmeFile(w, shapes) ==
    [kind |-> "file", json |-> TRUE,
     data |-> [imageWidth |-> w, imageHeight |-> 4, shapes |-> shapes]]

\* cases: a file that is gone, is no JSON, has width 0, holds only an
\* unmapped shape, holds features that pass or fail the rules; a directory
\* without files or with a keypoint file and a segmentation
CaseNodes ==
    { [kind |-> "missing"],
      [kind |-> "file", json |-> FALSE],
      LabelmeFile(0, <<Shape("fh", "point", <<<<1, 2>>>>)>>),
      LabelmeFile(2, <<Shape("zz", "point", <<<<1, 2>>>>)>>),
      LabelmeFile(2, <<Shape("fh", "point", <<<<1, 2>>>>),
                       Shape("a", "polygon", <<<<0, 0>>, <<2, 2>>>>),
                       Shape("b", "polygon", <<<<0, 2>>, <<2, 4>>>>)>>),
      LabelmeFile(2, <<Shape("fh", "point", <<<<2, 2>>>>)>>),
      [kind |-> "dir", files |-> <<>>],
      [kind |-> "dir", files |->
          <<KeypointFile("fh", <<<<4, 10>>, <<10, 2>>>>),
            [ext |-> "seg.nrrd", readable |-> TRUE, names |-> <<"a", "b">>]>>] }

\* current_run_context with the file_type of the tool's template
RunContexts ==
    { [annotator_tool |-> "labelme", data_view |-> "AP",  file_type |-> "single_file"],
      [annotator_tool |-> "labelme", data_view |-> "LAT", file_type |-> "single_file"],
      [annotator_tool |-> "slicer",  data_view |-> "AP",  file_type |-> "directory"],
      [annotator_tool |-> "labelme", data_view |-> "AP",  file_type |-> "archive"] }

\* rule lists: well formed, and with a rule that lacks check_type
CaseRuleLists ==
    { <<PointRule(PointParams0), SegRule(SegParams0)>>,
      <<[id |-> "N1", view |-> "AP", enabled |-> TRUE, params |-> PointParams0]>>,
      <<PointRule(PointParams0),
        [id |-> "N1", view |-> "AP", enabled |-> TRUE, params |-> PointParams0]>> }

InitCases ==
    /\ rules \in CaseRuleLists
    /\ label_mapping = CaseLabelMapping
    /\ fs \in [1..MaxCases -> CaseNodes]
    /\ run_context \in RunContexts
    /\ mirror_x = FALSE
    /\ _reverse_map = <<>>
    /\ parse_out = <<>>
    /\ map_out = <<>>
    /\ annotations = <<>>
    /\ ci = 1
    /\ case_pc = "start"
    /\ ALL_CASE_RESULTS = <<>>
    /\ case_log = <<>>
    /\ QCIdle /\ SeqIdle

NextCases ==
    \/ StartWalk
    \/ ParseCase
    \/ CallRunQC
    \/ FinishCase
    \/ FinishWalk
    \/ DispatchRule
    \/ ReturnResults
    \/ PointExistence
    \/ PointExistenceDone
    \/ PointPosition
    \/ PointFinish
    \/ SegCompleteness
    \/ SegExtra
    \/ SegSpecial
    \/ SegSequence

\* find_cases_and_process over a small data set
SpecCases == InitCases /\ [][NextCases]_vars

\* the paths of the cases logged so far
LoggedPaths == [i \in 1..Len(case_log) |-> case_log[i].path]

\* C12: no error of a case ends the traversal: when the traversal is over,
\* every matching case has been parsed, in order, whatever the cases before
\* it raised, and run_qc was run on every case that gave features.
C12_CasesAreIsolated ==
    /\ case_pc # "aborted"
    /\ (case_pc = "done" /\ run_context.file_type \in {"directory", "single_file"}) =>
          /\ LoggedPaths = MatchingCases(fs, run_context.file_type)
          /\ \A i \in 1..Len(case_log) :
                case_log[i].parse = "features" => case_log[i].qc \in {"returned", "raised"}

\* C12 witness: the first case has bad dimensions, the second is no JSON,
\* the third is parsed and evaluated
C12_Witness ==
    /\ case_pc = "done"
    /\ Len(case_log) = 3
    /\ case_log[1].parse = "raised" /\ fs[1].kind = "file" /\ fs[1].json
    /\ case_log[2].parse = "raised" /\ fs[2].kind = "file" /\ ~fs[2].json
    /\ case_log[3].qc = "returned"
    /\ Len(ALL_CASE_RESULTS) = 1
    /\ ALL_CASE_RESULTS[1].case_id = 3

\* the raw keypoints buffered by the last parse_data call, a Slicer parse
\* of a directory
BufferedKeypoints ==
    LET c == Head(parse_out)
    IN  RawKeypointsFrom(label_mapping, _build_reverse_map(label_mapping, c.view).value,
                         fs[c.path].files, 1, c.view)

SlicerParsed == ParsedWith("slicer") /\ fs[Head(parse_out).path].kind = "dir"

RawXs == {BufferedKeypoints[i].x : i \in 1..Len(BufferedKeypoints)}

RawYs == {BufferedKeypoints[i].y : i \in 1..Len(BufferedKeypoints)}

\* the normalized point emitted for the i-th buffered keypoint
EmittedPoint(i) == Head(parse_out).out.value[i].points[1]

\* C13 as stated: on every non-degenerate axis the keypoint with the
\* minimum raw coordinate is normalized to 0 and the one with the maximum
\* to S, the extent taken over all keypoints of the case.
C13_MinToZeroMaxToScale ==
    SlicerParsed =>
        \A i \in 1..Len(BufferedKeypoints) :
            LET kp == BufferedKeypoints[i]
            IN  /\ (MinOf(RawXs) # MaxOf(RawXs) /\ kp.x = MinOf(RawXs)) => EmittedPoint(i).x = 0
                /\ (MinOf(RawXs) # MaxOf(RawXs) /\ kp.x = MaxOf(RawXs)) => EmittedPoint(i).x = scale
                /\ (MinOf(RawYs) # MaxOf(RawYs) /\ kp.y = MinOf(RawYs)) => EmittedPoint(i).y = 0
                /\ (MinOf(RawYs) # MaxOf(RawYs) /\ kp.y = MaxOf(RawYs)) => EmittedPoint(i).y = scale

\* C13 amended: as stated on the Y axis, and on the X axis when mirroring is
\* off; with mirroring on the minimum raw X is normalized to S and the
\* maximum raw X to 0.
C13_MinMaxToFrameEdges ==
    SlicerParsed =>
        \A i \in 1..Len(BufferedKeypoints) :
            LET kp == BufferedKeypoints[i]
                atMinX == IF mirror_x THEN scale ELSE 0
                atMaxX == IF mirror_x THEN 0 ELSE scale
            IN  /\ (MinOf(RawXs) # MaxOf(RawXs) /\ kp.x = MinOf(RawXs)) => EmittedPoint(i).x = atMinX
                /\ (MinOf(RawXs) # MaxOf(RawXs) /\ kp.x = MaxOf(RawXs)) => EmittedPoint(i).x = atMaxX
                /\ (MinOf(RawYs) # MaxOf(RawYs) /\ kp.y = MinOf(RawYs)) => EmittedPoint(i).y = 0
                /\ (MinOf(RawYs) # MaxOf(RawYs) /\ kp.y = MaxOf(RawYs)) => EmittedPoint(i).y = scale

\* C13 witness: keypoints of two documents, mirroring on; the minimum X is in
\* the first document and the maximum X in the second
C13_Witness ==
    /\ SlicerParsed
    /\ mirror_x
    /\ Len(fs[Head(parse_out).path].files) = 2
    /\ Len(BufferedKeypoints) = 3
    /\ BufferedKeypoints[1].standard_label # BufferedKeypoints[2].standard_label
    /\ BufferedKeypoints[1].x = MinOf(RawXs) /\ BufferedKeypoints[2].x = MaxOf(RawXs)
    /\ EmittedPoint(1) = Point(scale, 400)
    /\ EmittedPoint(2) = Point(0, scale)
    /\ EmittedPoint(3) = Point(600, 0)

\* place of a label in the anatomical order, labels outside it after all others
AnatomicalRank(l) ==
    IF \E i \in 1..Len(vertebra_order_list) : vertebra_order_list[i] = l
    THEN CHOOSE i \in 1..Len(vertebra_order_list) : vertebra_order_list[i] = l
    ELSE Len(vertebra_order_list) + 1

\* the first feature of the label and of rule k's label type
FirstTyped(k, l) ==
    LET hits == {i \in 1..Len(view_annotations) :
                    /\ view_annotations[i].label = l
                    /\ view_annotations[i].type = enabled_rules[k].params.label_type}
    IN  view_annotations[CHOOSE i \in hits : \A j \in hits : i <= j]

\* the labels the sequence check of rule k is about: present with the rule's
\* label type, expected (required or optional), and with a center
SequenceLabels(k) ==
    {l \in TypedLabels(k) \cap
           (RequiredGroup(k) \cup Range(Get(enabled_rules[k].params, "optional_labels", <<>>))) :
        Len(FirstTyped(k, l).points) > 0}

\* b can follow a directly in an anatomical sort of the sequence labels
MayFollow(k, a, b) ==
    /\ a # b
    /\ AnatomicalRank(a) <= AnatomicalRank(b)
    /\ ~\E c \in SequenceLabels(k) :
          AnatomicalRank(a) < AnatomicalRank(c) /\ AnatomicalRank(c) < AnatomicalRank(b)

\* b follows a directly in every anatomical sort of the sequence labels
MustFollow(k, a, b) ==
    /\ MayFollow(k, a, b)
    /\ AnatomicalRank(a) < AnatomicalRank(b)
    /\ \A c \in SequenceLabels(k) : AnatomicalRank(c) = AnatomicalRank(b) => c = b

Drifts(k, a, b) ==
    Center(FirstTyped(k, b)).y < Center(FirstTyped(k, a)).y - POSITION_TOLERANCE

MayInvert(k) == \E a, b \in SequenceLabels(k) : MayFollow(k, a, b) /\ Drifts(k, a, b)

MustInvert(k) == \E a, b \in SequenceLabels(k) : MustFollow(k, a, b) /\ Drifts(k, a, b)

\* the last step of a segmentation rule: the sequence check and the result
SequenceStep ==
    pc = "seg_sequence" =>
        LET on  == Get(enabled_rules[ri].params, "sequence_check", FALSE)
            res == results'[Len(results')]
        IN  /\ Len(results') = Len(results) + 1
            /\ on => /\ MustInvert(ri) => (HasPart(res, "sequence_error") /\ res.status = "Fail")
                     /\ HasPart(res, "sequence_error") => (MayInvert(ri) /\ res.status = "Fail")
                     /\ ~HasPart(res, "sequence_error") => res.status = rule_status
            /\ ~on => (~HasPart(res, "sequence_error") /\ res.status = rule_status)

\* C14: with sequence_check requested the check looks at the features of the
\* rule's label type whose labels are present and expected, in anatomical
\* order with labels outside the order list last; an inversion among them
\* makes the status Fail whatever the earlier sub-checks gave, nothing else
\* does, and without sequence_check the status is the one they gave.
C14_InversionForcesFail == [][SequenceStep]_vars

\* C14 witness: the earlier sub-checks gave Warning (an extra label), the
\* inversion made it Fail, and a feature of another type was left out
C14_Witness ==
    \E k \in SegResults :
        /\ HasPart(results[k], "sequence_error")
        /\ HasPart(results[k], "extra")
        /\ ~HasPart(results[k], "severe_missing")
        /\ results[k].status = "Fail"
        /\ \E f \in Range(view_annotations) : f.type # enabled_rules[k].params.label_type

\* the center a position rule reads for its target: that of the first
\* feature of the label that has one
TargetCenter(label) ==
    LET hits == {i \in 1..Len(view_annotations) :
                    view_annotations[i].label = label /\ Len(view_annotations[i].points) > 0}
    IN  Center(view_annotations[CHOOSE i \in hits : \A j \in hits : i <= j])

\* the coordinate an absolute-position rule names
AxisValue(pr) == IF pr.check = "ABSOLUTE_X" THEN TargetCenter(pr.target).x ELSE TargetCenter(pr.target).y

\* the target of an absolute-position rule is present with a center and
\* its coordinate is on the wrong side of the threshold by the tolerance or more
ViolatesThreshold(pr) ==
    /\ OccursWithCenter(view_annotations, pr.target)
    /\ \/ pr.operator = "<" /\ AxisValue(pr) >= pr.threshold + POSITION_TOLERANCE
       \/ pr.operator = ">" /\ AxisValue(pr) <= pr.threshold - POSITION_TOLERANCE

\* C15: an absolute-position rule, on the X or the Y axis, whose present
\* target is at or beyond threshold + 5 (operator '<') or at or below
\* threshold - 5 (operator '>') makes the rule status Fail.
C15_AbsoluteViolationFails ==
    \A k \in PointResults :
        \A pr \in Range(Get(enabled_rules[k].params, "position_rules", <<>>)) :
            (pr.check \in {"ABSOLUTE_X", "ABSOLUTE_Y"} /\ ViolatesThreshold(pr))
                => results[k].status = "Fail"

\* the result has a misplaced part about this target and axis
Misplaced(res, label, dim) ==
    \E i \in 1..Len(res.message.parts) :
        /\ res.message.parts[i].kind = "misplaced"
        /\ res.message.parts[i].label = label
        /\ res.message.parts[i].dim = dim

\* the relative comparison fails against this reference center
FailsAgainst(pr, ref) ==
    LET value == IF pr.check = "RELATIVE_Y" THEN TargetCenter(pr.target).y ELSE TargetCenter(pr.target).x
        rel   == IF pr.check = "RELATIVE_Y" THEN ref.y ELSE ref.x
    IN  \/ pr.operator = "<" /\ value >= rel + POSITION_TOLERANCE
        \/ pr.operator = ">" /\ value <= rel - POSITION_TOLERANCE

\* C16: the reference lookup gives a real feature's center when there is
\* one, else for a label of the anatomical order list a synthetic center
\* whose Y grows strictly with the label's index, else nothing; a relative
\* check whose reference is only in the order list is evaluated against
\* the synthetic center and not skipped.
C16_SyntheticReference ==
    /\ \A l \in Range(vertebra_order_list) \cup {"REF"} :
          LET c == _get_feature_center(view_annotations, l)
          IN  /\ OccursWithCenter(view_annotations, l) => c = <<TargetCenter(l)>>
              /\ (~OccursWithCenter(view_annotations, l) /\ AnatomicalRank(l) <= Len(vertebra_order_list))
                    => (c # <<>> /\
                        \A m \in Range(vertebra_order_list) :
                            AnatomicalRank(m) < AnatomicalRank(l) =>
                                Head(_get_feature_center(<<>>, m)).y < Head(c).y)
              /\ (~OccursWithCenter(view_annotations, l) /\ AnatomicalRank(l) > Len(vertebra_order_list))
                    => c = <<>>
    /\ \A k \in PointResults :
          \A pr \in RelativeRules(k) :
              (/\ OccursWithCenter(view_annotations, pr.target)
               /\ AnatomicalRank(pr.relative_to) <= Len(vertebra_order_list))
              => /\ ~Names(results[k], "reference_missing", pr.relative_to)
                 /\ LET dim == IF pr.check = "RELATIVE_Y" THEN "Y" ELSE "X"
                        ref == Head(_get_feature_center(view_annotations, pr.relative_to))
                    IN  /\ FailsAgainst(pr, ref) => Misplaced(results[k], pr.target, dim)
                        /\ Len(enabled_rules[k].params.position_rules) = 1
                              => (Misplaced(results[k], pr.target, dim) => FailsAgainst(pr, ref))

\* C16 witness: L5 is not among the features, the relative check against it
\* is evaluated and fails
C16_Witness ==
    /\ pc = "returned"
    /\ Len(results) = 1
    /\ ~Occurs(view_annotations, "L5")
    /\ Len(Get(enabled_rules[1].params, "position_rules", <<>>)) = 1
    /\ enabled_rules[1].params.position_rules[1].relative_to = "L5"
    /\ Misplaced(results[1], "FH", "Y")
    /\ results[1].status = "Warning"
    /\ ~HasPart(results[1], "reference_missing")

----------------------------------------------------------------------------
(* Label lookups and parses on one parser, in any order *)

NativeLabels == {"a", "b", "zz"}

\* a call of _get_medical_label(actual_label, view)
CallGetMedicalLabel(actual_label, view) ==
    LET r == _get_medical_label(label_mapping, _reverse_map, actual_label, view)
    IN  /\ map_out' = <<[op |-> "label", view |-> view, label |-> actual_label, out |-> r.out]>>
        /\ _reverse_map' = r.reverse_map
        /\ UNCHANGED <<qcVars, seqVars, label_mapping, mirror_x, fs, parse_out, caseVars>>

NextLookup ==
    \/ \E path \in Paths, tool \in Tools, view \in Views : ParseData(path, tool, view)
    \/ \E actual_label \in NativeLabels, view \in Views : CallGetMedicalLabel(actual_label, view)

SpecLookup == InitParse /\ [][NextLookup]_vars

\* C17: whatever lookups and parses came before on the parser, a lookup
\* gives the standard label of the requested view's reverse map (none for a
\* label that map does not hold, the map's error when it cannot be built),
\* and a parse gives what it gives on a parser that has looked up nothing yet.
C17_LookupIgnoresHistory ==
    /\ map_out # <<>> =>
          LET c     == Head(map_out)
              built == _build_reverse_map(label_mapping, c.view)
          IN  IF built.ok
              THEN c.out = Returned(IF c.label \in DOMAIN built.value
                                    THEN <<built.value[c.label]>> ELSE <<>>)
              ELSE c.out = built
    /\ parse_out # <<>> =>
          LET c == Head(parse_out)
          IN  c.out = parse_data(label_mapping, <<>>, fs[c.path], c.tool, c.view, mirror_x).out

\* C17 witness: after a parse for view AP, where "a" is a synonym of L4, a
\* lookup of "a" for view LAT, where it is not mapped, gives nothing
C17_Witness ==
    /\ parse_out # <<>>
    /\ Head(parse_out).view = "AP"
    /\ Head(parse_out).out.ok
    /\ \E i \in 1..Len(Head(parse_out).out.value) : Head(parse_out).out.value[i].label = "L4"
    /\ map_out # <<>>
    /\ Head(map_out).view = "LAT" /\ Head(map_out).label = "a"
    /\ Head(map_out).out = Returned(<<>>)
    /\ _reverse_map = _build_reverse_map(label_mapping, "LAT").value
    /\ "a" \in DOMAIN _build_reverse_map(label_mapping, "AP").value

\* C18: every point of every feature parse_data returns, for either tool,
\* has both coordinates within [0, scale].
C18_PointsInFrame ==
    (parse_out # <<>> /\ Head(parse_out).out.ok) =>
        \A f \in Range(Head(parse_out).out.value) :
            \A pt \in Range(f.points) :
                /\ 0 <= pt.x /\ pt.x <= scale
                /\ 0 <= pt.y /\ pt.y <= scale

\* the entries of ALL_CASE_RESULTS for a case
EntriesOf(path) == {i \in 1..Len(ALL_CASE_RESULTS) : ALL_CASE_RESULTS[i].case_id = path}

\* a finished case has one entry if its parse gave features and none otherwise,
\* and no rules were run on a case whose parse raised or gave nothing
EntryIffFeatures ==
    \A i \in 1..Len(case_log) :
        /\ Cardinality(EntriesOf(case_log[i].path)) = IF case_log[i].parse = "features" THEN 1 ELSE 0
        /\ case_log[i].parse \in {"raised", "empty"} => case_log[i].qc = "none"

\* entries once appended stay as they are
EntriesKept ==
    /\ Len(ALL_CASE_RESULTS') >= Len(ALL_CASE_RESULTS)
    /\ SubSeq(ALL_CASE_RESULTS', 1, Len(ALL_CASE_RESULTS)) = ALL_CASE_RESULTS

\* C19: a case has an entry in ALL_CASE_RESULTS if and only if its parse
\* returned a non-empty feature list without raising; a case whose parse
\* raised or gave nothing runs no rules and adds no entry; entries already
\* appended are never modified or removed.
C19_EntryIffParsed == []EntryIffFeatures /\ [][EntriesKept]_vars

====
